---- MODULE Spec2Model ----
(***************************************************************************)
(* The deterministic scoring core of app/resume_analysis.py: _clean_text,  *)
(* _extract_skills and compute_nlp_scores.                                 *)
(*                                                                         *)
(* A Python str is a sequence of one-character strings.  A float is a      *)
(* binary fixed-point number with FracBits fractional bits (the integer n  *)
(* stands for n / 2^FracBits); every arithmetic operation rounds its       *)
(* result to the nearest representable number, as IEEE arithmetic does.    *)
(* An optional argument is None (the empty tuple) or Some(v) (<<v>>).      *)
(***************************************************************************)
EXTENDS Integers, Sequences, FiniteSets

\* ------------------------------------------------------------- bounds
\* A text is the concatenation of at most MaxParts fragments.
MaxParts == 3
\* The precision of the modelled floats: 2^FracBits steps per unit.
FracBits == 10

\* --------------------------------------------------------- characters
UpperChars ==
    <<"A", "B", "C", "D", "E", "F", "G", "H", "I", "J", "K", "L", "M",
      "N", "O", "P", "Q", "R", "S", "T", "U", "V", "W", "X", "Y", "Z", "É">>

LowerChars ==
    <<"a", "b", "c", "d", "e", "f", "g", "h", "i", "j", "k", "l", "m",
      "n", "o", "p", "q", "r", "s", "t", "u", "v", "w", "x", "y", "z", "é">>

Digits == {"0", "1", "2", "3", "4", "5", "6", "7", "8", "9"}

Range(s) == {s[i] : i \in DOMAIN s}

\* The regex class \s and the separators of str.split(): the same set.
Whitespace == {" ", "\t", "\n"}

\* The regex class [a-z0-9+] of _clean_text.
CleanKept == (Range(LowerChars) \ {"é"}) \cup Digits \cup {"+"}

\* The regex class \w of a str pattern: Unicode letters, digits, underscore.
WordChars == Range(UpperChars) \cup Range(LowerChars) \cup Digits \cup {"_"}

\* str.lower() on one character.
LowerChar(ch) ==
    IF \E i \in DOMAIN UpperChars : UpperChars[i] = ch
    THEN LowerChars[CHOOSE i \in DOMAIN UpperChars : UpperChars[i] = ch]
    ELSE ch

\* str.lower()
lower(t) == [i \in 1..Len(t) |-> LowerChar(t[i])]

\* --------------------------------------------------------- _clean_text
\* A variant of SubNonKept whose class leaves out the '+': [^a-z0-9\s].
SubNonKeptNoPlus(t) ==
    [i \in 1..Len(t) |->
        IF t[i] \in (CleanKept \ {"+"}) \cup Whitespace THEN t[i] ELSE " "]

\* re.sub(r"[^a-z0-9+\s]", " ", t)
SubNonKept(t) ==
    [i \in 1..Len(t) |->
        IF t[i] \in CleanKept \cup Whitespace THEN t[i] ELSE " "]

\* str.split(): the maximal runs of non-whitespace characters, in order.
\* cur is the run being read (empty between runs).
RECURSIVE SplitFrom(_, _, _)
SplitFrom(t, i, cur) ==
    IF i > Len(t)
    THEN IF cur = <<>> THEN <<>> ELSE <<cur>>
    ELSE IF t[i] \in Whitespace
         THEN IF cur = <<>>
              THEN SplitFrom(t, i + 1, <<>>)
              ELSE <<cur>> \o SplitFrom(t, i + 1, <<>>)
         ELSE SplitFrom(t, i + 1, Append(cur, t[i]))

split(t) == SplitFrom(t, 1, <<>>)

\* " ".join(words)
RECURSIVE join(_)
join(words) ==
    IF words = <<>> THEN <<>>
    ELSE IF Len(words) = 1 THEN words[1]
    ELSE words[1] \o <<" ">> \o join(Tail(words))

_clean_text(t) == join(split(SubNonKept(lower(t))))

\* ----------------------------------------------------- _extract_skills
None == <<>>
Some(v) == <<v>>

DefaultCatalog ==
  <<<<"p","y","t","h","o","n">>,
    <<"j","a","v","a">>,
    <<"c">>,
    <<"c","+","+">>,
    <<"h","t","m","l">>,
    <<"c","s","s">>,
    <<"j","a","v","a","s","c","r","i","p","t">>,
    <<"t","y","p","e","s","c","r","i","p","t">>,
    <<"r","e","a","c","t">>,
    <<"n","o","d","e">>,
    <<"s","q","l">>,
    <<"p","o","s","t","g","r","e","s">>,
    <<"p","o","s","t","g","r","e","s","q","l">>,
    <<"m","y","s","q","l">>,
    <<"m","o","n","g","o","d","b">>,
    <<"a","w","s">>,
    <<"g","c","p">>,
    <<"a","z","u","r","e">>,
    <<"d","o","c","k","e","r">>,
    <<"k","u","b","e","r","n","e","t","e","s">>,
    <<"l","i","n","u","x">>,
    <<"g","i","t">>,
    <<"b","a","s","h">>,
    <<"p","o","w","e","r","s","h","e","l","l">>,
    <<"p","a","n","d","a","s">>,
    <<"n","u","m","p","y">>,
    <<"s","c","i","k","i","t","-","l","e","a","r","n">>,
    <<"s","k","l","e","a","r","n">>,
    <<"t","e","n","s","o","r","f","l","o","w">>,
    <<"p","y","t","o","r","c","h">>,
    <<"t","a","b","l","e","a","u">>,
    <<"p","o","w","e","r"," ","b","i">>,
    <<"e","x","c","e","l">>,
    <<"a","i","r","f","l","o","w">>,
    <<"d","b","t">>,
    <<"s","p","a","r","k">>,
    <<"h","a","d","o","o","p">>,
    <<"k","a","f","k","a">>,
    <<"e","t","l">>,
    <<"m","l","o","p","s">>,
    <<"c","i","/","c","d">>>>

\* Whether position p of s (0 = before the first character, Len(s) = after
\* the last) is a regex \b: exactly one of its two neighbours is a \w.
IsWordAt(s, i) == i >= 1 /\ i <= Len(s) /\ s[i] \in WordChars

WordBoundary(s, p) == IsWordAt(s, p) # IsWordAt(s, p + 1)

\* re.search(rf"\b{re.escape(kw)}\b", corpus) is not None
SearchWord(kw, corpus) ==
    \E p \in 0..(Len(corpus) - Len(kw)) :
        /\ WordBoundary(corpus, p)
        /\ \A k \in 1..Len(kw) : corpus[p + k] = kw[k]
        /\ WordBoundary(corpus, p + Len(kw))

\* A variant of BuildKeys that extends the catalog list itself with the
\* extra keywords (DEFAULT_SKILLS.extend(...); keys = set(DEFAULT_SKILLS)).
BuildKeysShared(catalog, extra) ==
    LET grown == IF extra # None /\ extra[1] # <<>>
                 THEN catalog \o [i \in 1..Len(extra[1]) |-> lower(extra[1][i])]
                 ELSE catalog
    IN  [keys |-> Range(grown), catalog |-> grown, extra |-> extra]

\* Lines 167-169: keys = set(DEFAULT_SKILLS), then under "if extra:"
\* keys.update([k.lower() for k in extra]).  keys is a new set and the
\* comprehension a new list: the catalog list and the caller's list are
\* read, and are afterwards what they were.
BuildKeys(catalog, extra) ==
    [keys    |-> Range(catalog) \cup
                 (IF extra # None /\ extra[1] # <<>>
                  THEN {lower(k) : k \in Range(extra[1])}
                  ELSE {}),
     catalog |-> catalog,
     extra   |-> extra]

\* Line 170: the keys found in the corpus.
FoundIn(keys, corpus) == {kw \in keys : SearchWord(kw, corpus)}

\* _extract_skills with the module's catalog list passed as catalog.
ExtractWith(catalog, text, extra) ==
    FoundIn(BuildKeys(catalog, extra).keys, lower(text))

\* ------------------------------------------------------------- floats
Unit == 2 ^ FracBits

\* a / b rounded to the nearest integer (a >= 0, b > 0).
RoundDiv(a, b) == (2 * a + b) \div (2 * b)

FMul(x, y) == RoundDiv(x * y, Unit)

FDiv(x, y) == RoundDiv(x * Unit, y)

\* The largest r in lo..hi with r * r <= n.
RECURSIVE FloorSqrt(_, _, _)
FloorSqrt(n, lo, hi) ==
    IF lo >= hi THEN lo
    ELSE LET mid == (lo + hi + 1) \div 2
         IN  IF mid * mid <= n THEN FloorSqrt(n, mid, hi)
                               ELSE FloorSqrt(n, lo, mid - 1)

\* sqrt(x), rounded to the nearest representable number.
FSqrt(x) ==
    LET n == x * Unit
        r == FloorSqrt(n, 0, IF n < 46340 THEN n ELSE 46340)
    IN  IF n - r * r > r THEN r + 1 ELSE r

\* The sum of f[w] over the finite set S.
RECURSIVE SumOver(_, _)
SumOver(S, f) ==
    IF S = {} THEN 0
    ELSE LET w == CHOOSE v \in S : TRUE
         IN  f[w] + SumOver(S \ {w}, f)

\* ------------------------------------- TfidfVectorizer, cosine_similarity
\* sklearn's English stop words, cut to those the texts below can hold.
ENGLISH_STOP_WORDS ==
    {<<"a","n","d">>, <<"t","h","e">>, <<"f","o","r">>, <<"w","i","t","h">>}

\* The token pattern (?u)\b\w\w+\b on a cleaned text: the maximal runs of
\* word characters that are at least two characters long, in order.
RECURSIVE TokensFrom(_, _, _)
TokensFrom(t, i, cur) ==
    LET out == IF Len(cur) >= 2 THEN <<cur>> ELSE <<>>
    IN  IF i > Len(t) THEN out
        ELSE IF t[i] \in WordChars
             THEN TokensFrom(t, i + 1, Append(cur, t[i]))
             ELSE out \o TokensFrom(t, i + 1, <<>>)

\* The analyzer: tokenize, then drop the stop words.
Analyze(doc) ==
    SelectSeq(TokensFrom(doc, 1, <<>>), LAMBDA w : w \notin ENGLISH_STOP_WORDS)

\* The term frequency of w in a token sequence.
Count(toks, w) == Cardinality({i \in DOMAIN toks : toks[i] = w})

\* idf = ln((1 + n) / (1 + df)) + 1 with n = 2 documents: 1 when both hold
\* the term, ln(3/2) + 1 = 1.4055 when one does.
Idf(df) == IF df = 2 THEN Unit ELSE RoundDiv(14055 * Unit, 10000)

\* normalize(v, norm="l2"): a zero row stays zero.
L2Normalize(v) ==
    LET sq   == [w \in DOMAIN v |-> FMul(v[w], v[w])]
        norm == FSqrt(SumOver(DOMAIN v, sq))
    IN  IF norm = 0 THEN v ELSE [w \in DOMAIN v |-> FDiv(v[w], norm)]

\* fit_transform raises ValueError("empty vocabulary ...") on these documents.
EmptyVocabulary(docA, docB) ==
    Range(Analyze(docA)) \cup Range(Analyze(docB)) = {}

\* cosine_similarity(tfidf[0:1], tfidf[1:2])[0][0] for the two cleaned
\* documents (whose vocabulary is not empty).
TfidfCosine(docA, docB) ==
    LET ta    == Analyze(docA)
        tb    == Analyze(docB)
        vocab == Range(ta) \cup Range(tb)
        df    == [w \in vocab |->
                    (IF w \in Range(ta) THEN 1 ELSE 0)
                  + (IF w \in Range(tb) THEN 1 ELSE 0)]
        rowA  == L2Normalize([w \in vocab |-> Count(ta, w) * Idf(df[w])])
        rowB  == L2Normalize([w \in vocab |-> Count(tb, w) * Idf(df[w])])
        na    == L2Normalize(rowA)
        nb    == L2Normalize(rowB)
    IN  SumOver(vocab, [w \in vocab |-> FMul(na[w], nb[w])])

\* ------------------------------------------------- compute_nlp_scores
\* A variant of CosineStep without the try/except of lines 189-194.
CosineStepNoCatch(hasSk, resume_text, jd_text) ==
    IF hasSk
    THEN LET a == _clean_text(resume_text)
             b == _clean_text(jd_text)
         IN  IF EmptyVocabulary(a, b)
             THEN [raised |-> TRUE, cos |-> 0]
             ELSE [raised |-> FALSE, cos |-> TfidfCosine(a, b)]
    ELSE [raised |-> FALSE, cos |-> 0]

\* A variant of CosineStep whose fallback without scikit-learn is 1.0.
CosineStepFallbackOne(hasSk, resume_text, jd_text) ==
    IF hasSk
    THEN LET a == _clean_text(resume_text)
             b == _clean_text(jd_text)
         IN  IF EmptyVocabulary(a, b)
             THEN [raised |-> FALSE, cos |-> 0]
             ELSE [raised |-> FALSE, cos |-> TfidfCosine(a, b)]
    ELSE [raised |-> FALSE, cos |-> Unit]

\* Lines 188-196: the cosine, and whether an exception left the function.
CosineStep(hasSk, resume_text, jd_text) ==
    IF hasSk
    THEN LET a == _clean_text(resume_text)
             b == _clean_text(jd_text)
         IN  IF EmptyVocabulary(a, b)
             THEN [raised |-> FALSE, cos |-> 0]
             ELSE [raised |-> FALSE, cos |-> TfidfCosine(a, b)]
    ELSE [raised |-> FALSE, cos |-> 0]

\* A variant of Jaccard that divides by len(rs) + len(js).
JaccardSumDenominator(rs, js) ==
    LET union == IF Cardinality(rs) + Cardinality(js) > 1
                 THEN Cardinality(rs) + Cardinality(js) ELSE 1
    IN  RoundDiv(Cardinality(rs \cap js) * Unit, union)

\* Lines 201-202: len(rs & js) / max(1, len(rs | js))
Jaccard(rs, js) ==
    LET union == IF Cardinality(rs \cup js) > 1
                 THEN Cardinality(rs \cup js) ELSE 1
    IN  RoundDiv(Cardinality(rs \cap js) * Unit, union)

\* The weights 0.65 and 0.35 of lines 206 and 209, in hundredths.
CosWeight == 65
SkillWeight == 35

\* A variant of Hybrid that gives skills_overlap the whole weight when
\* scikit-learn is missing.
HybridRenormalized(hasSk, cos, jacc) ==
    IF hasSk
    THEN RoundDiv(CosWeight * cos, 100) + RoundDiv(SkillWeight * jacc, 100)
    ELSE jacc

\* Lines 205-209.
Hybrid(hasSk, cos, jacc) ==
    IF hasSk
    THEN RoundDiv(CosWeight * cos, 100) + RoundDiv(SkillWeight * jacc, 100)
    ELSE RoundDiv(SkillWeight * jacc, 100)

\* Lines 201-217: the returned dict.
Report(hasSk, cos, rs, js) ==
    [raised         |-> FALSE,
     cosine         |-> cos,
     skills_overlap |-> Jaccard(rs, js),
     hybrid         |-> Hybrid(hasSk, cos, Jaccard(rs, js)),
     resume_skills  |-> rs,
     jd_skills      |-> js]

\* compute_nlp_scores: the returned dict, or the exception that left it.
ScoresWith(hasSk, catalog, resume_text, jd_text, extra_skill_keywords) ==
    LET c  == CosineStep(hasSk, resume_text, jd_text)
        rs == ExtractWith(catalog, resume_text, extra_skill_keywords)
        js == ExtractWith(catalog, jd_text, extra_skill_keywords)
    IN  IF c.raised THEN [raised |-> TRUE] ELSE Report(hasSk, c.cos, rs, js)

\* ------------------------------------------------------------- inputs
\* What the texts given to _clean_text and _extract_skills are made of.
Fragments ==
    { <<"j","a","v","a">>, <<"s","c","r","i","p","t">>, <<"c","+","+">>,
      <<"C","#">>, <<"S","Q","L">>, <<"R","u","s","t">>,
      <<" ">>, <<"\n">>, <<"_">>, <<"3">>, <<"é">> }

\* What the documents given to compute_nlp_scores are made of.
DocFragments ==
    { <<"j","a","v","a"," ">>, <<"S","Q","L"," ">>, <<"R","u","s","t"," ">>,
      <<"a","n","d"," ">>, <<"c","+","+"," ">>, <<"C","#"," ">> }

\* The concatenations of at most n members of F.
RECURSIVE Concats(_, _)
Concats(F, n) ==
    IF n = 0 THEN {<<>>}
    ELSE LET S == Concats(F, n - 1)
         IN  S \cup {s \o f : s \in S, f \in F}

Texts == Concats(Fragments, MaxParts)

Documents == Concats(DocFragments, MaxParts)

\* The job descriptions a resume is compared with, besides itself.
JobDescriptions ==
    { <<>>,
      <<"j","a","v","a"," ","S","Q","L">>,
      <<"R","u","s","t"," ","a","n","d"," ","c","+","+">> }

\* The extra keyword lists a caller passes: none, an empty one, and one
\* of two keywords, the second ending in punctuation.
Extras ==
    { None, Some(<<>>), Some(<<<<"R","u","s","t">>, <<"C","#">>>>) }

\* The callers of the interleaved calls, and what they pass.
Callers == {1, 2}

CallTexts ==
    { <<>>, <<"R","u","s","t"," ","j","a","v","a">>, <<"C","#","3"," ","S","Q","L">> }

\* --------------------------------------------------------------- state
VARIABLES
    _HAS_SK,          \* line 22 / 24: whether scikit-learn was imported
    DEFAULT_SKILLS,   \* lines 148-156: the module's catalog list
    call,             \* the function a caller invokes
    pc,               \* "start" before the call, "done" after it
    text,             \* t / text / resume_text
    jd_text,          \* compute_nlp_scores' second argument
    extra,            \* extra / extra_skill_keywords
    result,           \* what the call returned
    frame,            \* frame[c]: caller c's call in progress, its locals
    extra_list,       \* extra_list[c]: the list object caller c passes
    pdf,              \* a call of extract_text_from_pdf in progress
    critique,         \* a call of critique_interview_answer
    coach,            \* main.py: st.session_state.coach
    button            \* main.py: the button whose click the last run handled

vars ==
    <<_HAS_SK, DEFAULT_SKILLS, call, pc, text, jd_text, extra, result,
      frame, extra_list, pdf, critique, coach, button>>

\* The state of the functions and of the page outside the scoring core.
outside == <<pdf, critique, coach, button>>

\* The scoring core's state.
scoring ==
    <<_HAS_SK, DEFAULT_SKILLS, call, pc, text, jd_text, extra, result,
      frame, extra_list>>

\* No call of extract_text_from_pdf or critique_interview_answer has been
\* made, and main.py lines 238-239 have set up the session.
OutsideIdle ==
    /\ pdf = [pc |-> "idle"]
    /\ critique = [pc |-> "idle"]
    /\ coach = [questions |-> <<>>, idx |-> 0, records |-> <<>>]
    /\ button = "none"

single == <<call, pc, text, jd_text, extra, result>>

_extract_skills(t, e) == ExtractWith(DEFAULT_SKILLS, t, e)

compute_nlp_scores(r, j, e) == ScoresWith(_HAS_SK, DEFAULT_SKILLS, r, j, e)

IdleFrame ==
    [pc |-> "idle", fn |-> "none", which |-> "none",
     text |-> <<>>, jd_text |-> <<>>, passed |-> None,
     corpus |-> <<>>, keys |-> {}, cos |-> 0, rs |-> {}, js |-> {},
     result |-> None]

\* ------------------------------------------------- one call, atomically
\* The module is imported (with or without scikit-learn) and a caller is
\* about to make one call on arguments of its choice.
Init ==
    /\ _HAS_SK \in BOOLEAN
    /\ DEFAULT_SKILLS = DefaultCatalog
    /\ pc = "start"
    /\ result = None
    /\ \/ call = "_clean_text" /\ text \in Texts
          /\ jd_text = <<>> /\ extra = None
       \/ call = "_extract_skills" /\ text \in Texts
          /\ jd_text = <<>> /\ extra \in Extras
       \/ call = "compute_nlp_scores" /\ text \in Documents
          /\ jd_text \in JobDescriptions \cup {text} /\ extra \in Extras
    /\ frame = [c \in Callers |-> IdleFrame]
    /\ extra_list = [c \in Callers |-> None]
    /\ OutsideIdle

CleanText ==
    /\ pc = "start" /\ call = "_clean_text"
    /\ result' = _clean_text(text)
    /\ pc' = "done"
    /\ UNCHANGED <<_HAS_SK, DEFAULT_SKILLS, call, text, jd_text, extra,
                   frame, extra_list>>
    /\ UNCHANGED outside

ExtractSkills ==
    /\ pc = "start" /\ call = "_extract_skills"
    /\ result' = _extract_skills(text, extra)
    /\ pc' = "done"
    /\ UNCHANGED <<_HAS_SK, DEFAULT_SKILLS, call, text, jd_text, extra,
                   frame, extra_list>>
    /\ UNCHANGED outside

ComputeNlpScores ==
    /\ pc = "start" /\ call = "compute_nlp_scores"
    /\ result' = compute_nlp_scores(text, jd_text, extra)
    /\ pc' = "done"
    /\ UNCHANGED <<_HAS_SK, DEFAULT_SKILLS, call, text, jd_text, extra,
                   frame, extra_list>>
    /\ UNCHANGED outside

Next == CleanText \/ ExtractSkills \/ ComputeNlpScores

Spec == Init /\ [][Next]_vars

\* ------------------------------------------ interleaved calls, by line
\* Two callers (threads) call _extract_skills and compute_nlp_scores over
\* and over; a step is one statement, and the callers' steps interleave.
InitCalls ==
    /\ _HAS_SK \in BOOLEAN
    /\ DEFAULT_SKILLS = DefaultCatalog
    /\ call = "none" /\ pc = "done" /\ text = <<>> /\ jd_text = <<>>
    /\ extra = None /\ result = None
    /\ frame = [c \in Callers |-> IdleFrame]
    /\ extra_list = [c \in Callers |-> None]
    /\ OutsideIdle

\* Caller c calls a function on arguments of its choice.
Invoke(c) ==
    /\ frame[c].pc \in {"idle", "done"}
    /\ \E fn \in {"_extract_skills", "compute_nlp_scores"},
          t \in CallTexts, j \in CallTexts, e \in Extras :
          /\ fn = "_extract_skills" => j = <<>>
          /\ frame' = [frame EXCEPT ![c] =
                [IdleFrame EXCEPT
                    !.pc = IF fn = "_extract_skills" THEN "keys" ELSE "cos",
                    !.fn = fn,
                    !.which = IF fn = "_extract_skills" THEN "text" ELSE "rs",
                    !.text = t, !.jd_text = j, !.passed = e]]
          /\ extra_list' = [extra_list EXCEPT ![c] = e]
    /\ UNCHANGED <<_HAS_SK, DEFAULT_SKILLS, single>>
    /\ UNCHANGED outside

\* Lines 188-196 of compute_nlp_scores.
StepCos(c) ==
    /\ frame[c].pc = "cos"
    /\ LET f == frame[c]
           r == CosineStep(_HAS_SK, f.text, f.jd_text)
       IN  frame' = [frame EXCEPT ![c] =
               IF r.raised
               THEN [f EXCEPT !.pc = "done", !.result = [raised |-> TRUE]]
               ELSE [f EXCEPT !.pc = "keys", !.cos = r.cos]]
    /\ UNCHANGED <<_HAS_SK, DEFAULT_SKILLS, single, extra_list>>
    /\ UNCHANGED outside

\* Lines 166-169 of _extract_skills, called on text (or, from lines 199
\* and 200 of compute_nlp_scores, on resume_text and then on jd_text).
StepKeys(c) ==
    /\ frame[c].pc = "keys"
    /\ LET b == BuildKeys(DEFAULT_SKILLS, extra_list[c])
           t == IF frame[c].which = "js" THEN frame[c].jd_text
                                         ELSE frame[c].text
       IN  /\ frame' = [frame EXCEPT ![c] =
                  [frame[c] EXCEPT !.pc = "found", !.corpus = lower(t),
                                   !.keys = b.keys]]
           /\ DEFAULT_SKILLS' = b.catalog
           /\ extra_list' = [extra_list EXCEPT ![c] = b.extra]
    /\ UNCHANGED <<_HAS_SK, single>>
    /\ UNCHANGED outside

\* Lines 170-171 of _extract_skills, and the assignment of what it returns.
StepFound(c) ==
    /\ frame[c].pc = "found"
    /\ LET f     == frame[c]
           found == FoundIn(f.keys, f.corpus)
       IN  frame' = [frame EXCEPT ![c] =
               IF f.which = "text"
               THEN [f EXCEPT !.pc = "done", !.result = found]
               ELSE IF f.which = "rs"
               THEN [f EXCEPT !.pc = "keys", !.which = "js", !.rs = found]
               ELSE [f EXCEPT !.pc = "ret", !.js = found]]
    /\ UNCHANGED <<_HAS_SK, DEFAULT_SKILLS, single, extra_list>>
    /\ UNCHANGED outside

\* Lines 201-217 of compute_nlp_scores.
StepReturn(c) ==
    /\ frame[c].pc = "ret"
    /\ LET f == frame[c]
       IN  frame' = [frame EXCEPT ![c] =
               [f EXCEPT !.pc = "done",
                         !.result = Report(_HAS_SK, f.cos, f.rs, f.js)]]
    /\ UNCHANGED <<_HAS_SK, DEFAULT_SKILLS, single, extra_list>>
    /\ UNCHANGED outside

NextCalls ==
    \E c \in Callers :
        Invoke(c) \/ StepCos(c) \/ StepKeys(c) \/ StepFound(c) \/ StepReturn(c)

SpecCalls == InitCalls /\ [][NextCalls]_vars

\* ============================================================== claims
Returned(fn) == pc = "done" /\ call = fn

ReportFields ==
    {"raised", "cosine", "skills_overlap", "hybrid", "resume_skills",
     "jd_skills"}

\* kw occurs in s right after its first p characters.
OccursAt(kw, s, p) ==
    /\ p + Len(kw) <= Len(s)
    /\ \A k \in 1..Len(kw) : s[p + k] = kw[k]

\* s holds an occurrence of kw with no letter, digit or underscore right
\* before it or right after it.
WholeWordOccurs(kw, s) ==
    \E p \in 0..(Len(s) - Len(kw)) :
        /\ OccursAt(kw, s, p)
        /\ ~IsWordAt(s, p)
        /\ ~IsWordAt(s, p + Len(kw) + 1)

\* C1: every report of compute_nlp_scores has cosine, skills_overlap and
\* hybrid within [0,1] (0..Unit in the model's floats).
C1_ScoresInUnitInterval ==
    (Returned("compute_nlp_scores") /\ ~result.raised) =>
        /\ result.cosine \in 0..Unit
        /\ result.skills_overlap \in 0..Unit
        /\ result.hybrid \in 0..Unit

\* C2: compute_nlp_scores never raises and returns all five fields, whether
\* vectorization succeeds, fails internally or is unavailable; when it fails
\* internally (the vocabulary is empty) the cosine is exactly 0.
C2_NeverRaises ==
    Returned("compute_nlp_scores") =>
        /\ ~result.raised
        /\ DOMAIN result = ReportFields
        /\ (_HAS_SK /\ EmptyVocabulary(_clean_text(text), _clean_text(jd_text)))
              => result.cosine = 0

\* C2's case: the engine is there and vectorization fails on a resume and a
\* job description that are not empty.
C2_Witness ==
    /\ Returned("compute_nlp_scores")
    /\ _HAS_SK
    /\ text # <<>> /\ jd_text # <<>>
    /\ EmptyVocabulary(_clean_text(text), _clean_text(jd_text))
    /\ ~result.raised

\* C3: hybrid is 0.65*cosine + 0.35*skills_overlap when the engine is
\* available and 0.35*skills_overlap when it is not, whatever the texts;
\* without the engine a skills_overlap of 0.5 gives 0.175.
C3_HybridWeights ==
    (Returned("compute_nlp_scores") /\ ~result.raised) =>
        /\ _HAS_SK => result.hybrid =
              RoundDiv(65 * result.cosine, 100)
            + RoundDiv(35 * result.skills_overlap, 100)
        /\ ~_HAS_SK => result.hybrid = RoundDiv(35 * result.skills_overlap, 100)
        /\ (~_HAS_SK /\ 2 * result.skills_overlap = Unit)
              => result.hybrid = RoundDiv(175 * Unit, 1000)

\* C3's case: no engine, and half of the skills shared.
C3_Witness ==
    /\ Returned("compute_nlp_scores")
    /\ ~_HAS_SK
    /\ 2 * result.skills_overlap = Unit
    /\ result.hybrid = RoundDiv(175 * Unit, 1000)

\* C4: skills_overlap is |resume_skills & jd_skills| / |resume_skills |
\* jd_skills|, and 0 when both are empty; a text with a catalog skill
\* compared with itself gives 1, and two empty texts give 0 and no skills.
C4_Jaccard ==
    (Returned("compute_nlp_scores") /\ ~result.raised) =>
        LET rs == result.resume_skills
            js == result.jd_skills
        IN  /\ rs = _extract_skills(text, extra)
            /\ js = _extract_skills(jd_text, extra)
            /\ (rs \cup js = {}) => result.skills_overlap = 0
            /\ (rs \cup js # {}) => result.skills_overlap =
                  RoundDiv(Cardinality(rs \cap js) * Unit,
                           Cardinality(rs \cup js))
            /\ (text = jd_text /\ rs # {}) => result.skills_overlap = Unit
            /\ (text = <<>> /\ jd_text = <<>>) =>
                  result.skills_overlap = 0 /\ rs = {} /\ js = {}

\* C4's case: the two texts share some of their skills, not all.
C4_Witness ==
    /\ Returned("compute_nlp_scores")
    /\ result.resume_skills \cap result.jd_skills # {}
    /\ result.resume_skills # result.jd_skills
    /\ result.skills_overlap \notin {0, Unit}

\* "c++" stands alone in t: after the start or whitespace, and before
\* whitespace, punctuation or the end.
StandaloneCpp(t) ==
    LET s == lower(t)
    IN  \E p \in 0..(Len(s) - 3) :
            /\ OccursAt(<<"c", "+", "+">>, s, p)
            /\ p = 0 \/ s[p] \in Whitespace
            /\ \/ p + 3 = Len(s)
               \/ s[p + 4] \in Whitespace \cup {".", ",", ";", ":", ")", "!", "?"}

\* C5: a text in which "c++" stands alone yields a set containing "c++".
C5_CppMatches ==
    (Returned("_extract_skills") /\ StandaloneCpp(text)) =>
        <<"c", "+", "+">> \in result

\* C6: a keyword is returned only if the lower-cased text holds an
\* occurrence of it with no letter, digit or underscore on either side.
C6_WordBoundaries ==
    Returned("_extract_skills") =>
        \A kw \in result : WholeWordOccurs(kw, lower(text))

\* C7 as amended: without the engine the report has cosine 0 and hybrid
\* 0.35*skills_overlap and nothing else tells: it has the five fields and
\* no flag, and a report made with the engine whose cosine is 0 is the very
\* report the same call returns without the engine.
C7_DegradedReport ==
    (Returned("compute_nlp_scores") /\ ~result.raised) =>
        /\ DOMAIN result = ReportFields
        /\ ~_HAS_SK =>
              /\ result.cosine = 0
              /\ result.hybrid = RoundDiv(35 * result.skills_overlap, 100)
        /\ (_HAS_SK /\ result.cosine = 0) =>
              result = ScoresWith(FALSE, DEFAULT_SKILLS, text, jd_text, extra)

\* C7's case: the engine is there, the two texts are not empty and the
\* cosine is 0, so the report is the one a missing engine gives.
C7_Witness ==
    /\ Returned("compute_nlp_scores")
    /\ _HAS_SK
    /\ result.cosine = 0
    /\ result.skills_overlap > 0
    /\ result = ScoresWith(FALSE, DEFAULT_SKILLS, text, jd_text, extra)

\* C7 as stated: a report made with the engine whose cosine is 0 differs
\* from the report the call returns in degraded mode (by its flag).
C7_Distinguishable ==
    (Returned("compute_nlp_scores") /\ _HAS_SK /\ result.cosine = 0) =>
        result # ScoresWith(FALSE, DEFAULT_SKILLS, text, jd_text, extra)

\* The working catalog of a call: the default catalog and the lower-cased
\* extra keywords.
WorkingCatalog(e) ==
    Range(DefaultCatalog) \cup
    (IF e = None THEN {} ELSE {lower(k) : k \in Range(e[1])})

\* C8: the result is exactly the working catalog's keywords that occur as
\* whole words in the lower-cased text: it lies within the catalog, the
\* letter case of text and extras does not matter, an extra keyword in the
\* text is returned when supplied and not when omitted, and an empty text
\* yields nothing.
C8_ExactlyTheKeywordsPresent ==
    Returned("_extract_skills") =>
        /\ result \subseteq WorkingCatalog(extra)
        /\ result = {kw \in WorkingCatalog(extra) :
                        WholeWordOccurs(kw, lower(text))}
        /\ \A kw \in WorkingCatalog(extra) \ Range(DefaultCatalog) :
              /\ WholeWordOccurs(kw, lower(text)) => kw \in result
              /\ kw \notin _extract_skills(text, None)
        /\ text = <<>> => result = {}

\* What the call of frame f returns when it runs alone on the catalog as
\* the module defines it.
AloneResult(f) ==
    IF f.fn = "_extract_skills"
    THEN ExtractWith(DefaultCatalog, f.text, f.passed)
    ELSE ScoresWith(_HAS_SK, DefaultCatalog, f.text, f.jd_text, f.passed)

\* C9: whatever calls interleave, the default catalog and each caller's
\* extra list stay what they were, every call returns what it returns when
\* run alone, and a call without extras reports default keywords only.
C9_Stateless ==
    /\ DEFAULT_SKILLS = DefaultCatalog
    /\ \A c \in Callers :
          /\ extra_list[c] = frame[c].passed
          /\ frame[c].pc = "done" =>
                /\ frame[c].result = AloneResult(frame[c])
                /\ (frame[c].fn = "_extract_skills" /\ frame[c].passed = None)
                      => frame[c].result \subseteq Range(DefaultCatalog)

\* C9's case: caller 1's call without extras has returned, on a text that
\* holds "rust", while caller 2's call with the extra keyword "Rust" has
\* built its keys.
C9_Witness ==
    /\ frame[1].pc = "done" /\ frame[1].fn = "_extract_skills"
    /\ frame[1].passed = None
    /\ WholeWordOccurs(<<"r", "u", "s", "t">>, lower(frame[1].text))
    /\ <<"r", "u", "s", "t">> \notin frame[1].result
    /\ frame[2].pc = "found"
    /\ <<"r", "u", "s", "t">> \in frame[2].keys

\* The characters _clean_text keeps: a-z, 0-9 and '+'.
KeptChars == Range(SubSeq(LowerChars, 1, 26)) \cup Digits \cup {"+"}

\* The places of s, in order, that hold a character of S.
PlacesOf(s, S) == SelectSeq([i \in 1..Len(s) |-> i], LAMBDA i : s[i] \in S)

\* C10: _clean_text returns only a-z, digits, '+' and single spaces, with no
\* space at either end; the '+', letters a-z and digits of the lower-cased
\* input come out in order and nothing else does; two of them are adjacent
\* in the output exactly when they are adjacent in the input (whitespace and
\* every other character separate); the empty string gives the empty string.
C10_CleanText ==
    Returned("_clean_text") =>
        LET low == lower(text)
            src == PlacesOf(low, KeptChars)
            dst == PlacesOf(result, KeptChars)
        IN  /\ Range(result) \subseteq KeptChars \cup {" "}
            /\ result # <<>> => result[1] # " " /\ result[Len(result)] # " "
            /\ \A i \in 1..(Len(result) - 1) :
                  ~(result[i] = " " /\ result[i + 1] = " ")
            /\ Len(dst) = Len(src)
            /\ \A k \in 1..Len(src) : result[dst[k]] = low[src[k]]
            /\ \A k \in 1..(Len(src) - 1) :
                  (dst[k + 1] = dst[k] + 1) <=> (src[k + 1] = src[k] + 1)
            /\ text = <<>> => result = <<>>

\* C10's case: an input with capitals, a '+', whitespace to collapse or
\* trim, and a character that is replaced.
C10_Witness ==
    /\ Returned("_clean_text")
    /\ "+" \in Range(result) /\ " " \in Range(result)
    /\ \E i \in 1..Len(text) : text[i] \in Range(UpperChars)
    /\ \E i \in 1..Len(text) : text[i] \notin KeptChars \cup Whitespace \cup Range(UpperChars)
    /\ Len(result) < Len(text)


\* ------------------------------------------------------------------------
\* extract_text_from_pdf (resume_analysis.py lines 30-52), a statement at a
\* time.  The upload and the PDF library are the environment: each of their
\* calls either succeeds or raises an Exception.

\* The most pages a document has.
MaxPages == 2

\* What page.get_text() can give back: a text, the empty text, or None.
PageTexts == {Some(<<"a">>), Some(<<"b", "c">>), Some(<<>>), None}

\* Line 47: page.get_text() or "".
OrEmpty(t) == IF t = None \/ t = Some(<<>>) THEN <<>> ELSE t[1]

\* "".join(text) of line 48.
RECURSIVE Concat(_)
Concat(ts) == IF ts = <<>> THEN <<>> ELSE Head(ts) \o Concat(Tail(ts))

\* The frame of a call that has just been entered (line 35).
PdfEntered(fitz) ==
    [pc |-> "read", fitz |-> fitz, npages |-> 0, text |-> <<>>,
     opened |-> FALSE, closes |-> 0, pending |-> "none", failed |-> {},
     raised |-> FALSE, result |-> <<>>]

\* An exception inside the inner try without its finally clause: control
\* goes straight to the outer handler and the document stays open.
PageErrorNoFinally(p) ==
    [p EXCEPT !.pc = "except", !.failed = @ \cup {"get_text"}]

\* Lines 44-50: an exception raised by page.get_text() leaves the inner try
\* through its finally clause, which closes the document.
PageError(p) ==
    [p EXCEPT !.pc = "close", !.pending = "exc",
              !.failed = @ \cup {"get_text"}]

InitPdf ==
    /\ _HAS_SK \in BOOLEAN
    /\ DEFAULT_SKILLS = DefaultCatalog
    /\ call = "none" /\ pc = "done"
    /\ text = <<>> /\ jd_text = <<>> /\ extra = None /\ result = None
    /\ frame = [c \in Callers |-> IdleFrame]
    /\ extra_list = [c \in Callers |-> None]
    /\ critique = [pc |-> "idle"]
    /\ coach = [questions |-> <<>>, idx |-> 0, records |-> <<>>]
    /\ button = "none"
    /\ \E fitz \in BOOLEAN : pdf = PdfEntered(fitz)

\* Line 36: data = uploaded_file.read().
PdfRead ==
    /\ pdf.pc = "read"
    /\ \/ pdf' = [pdf EXCEPT !.pc = "seek"]
       \/ pdf' = [pdf EXCEPT !.pc = "except", !.failed = @ \cup {"read"}]
    /\ UNCHANGED <<scoring, critique, coach, button>>

\* Lines 37-40: uploaded_file.seek(0); its exception is swallowed.
PdfSeek ==
    /\ pdf.pc = "seek"
    /\ \/ pdf' = [pdf EXCEPT !.pc = "fitz"]
       \/ pdf' = [pdf EXCEPT !.pc = "fitz", !.failed = @ \cup {"seek"}]
    /\ UNCHANGED <<scoring, critique, coach, button>>

\* Lines 41-42: if not fitz: return "".
PdfCheckFitz ==
    /\ pdf.pc = "fitz"
    /\ pdf' = IF pdf.fitz
              THEN [pdf EXCEPT !.pc = "open"]
              ELSE [pdf EXCEPT !.pc = "done", !.result = <<>>]
    /\ UNCHANGED <<scoring, critique, coach, button>>

\* Line 43: doc = fitz.open(stream=data, filetype="pdf").
PdfOpen ==
    /\ pdf.pc = "open"
    /\ \/ \E n \in 0..MaxPages :
            pdf' = [pdf EXCEPT !.pc = "page", !.opened = TRUE, !.npages = n]
       \/ pdf' = [pdf EXCEPT !.pc = "except", !.failed = @ \cup {"open"}]
    /\ UNCHANGED <<scoring, critique, coach, button>>

\* Lines 45-48: one turn of the loop over the pages, or the return after the
\* last page, which first runs the finally clause.
PdfPage ==
    /\ pdf.pc = "page"
    /\ IF Len(pdf.text) < pdf.npages
       THEN \/ \E t \in PageTexts :
                 pdf' = [pdf EXCEPT !.text = Append(@, OrEmpty(t))]
            \/ pdf' = PageError(pdf)
       ELSE pdf' = [pdf EXCEPT !.pc = "close", !.pending = "return"]
    /\ UNCHANGED <<scoring, critique, coach, button>>

\* Lines 49-50: finally: doc.close(); then the pending return or exception
\* goes on, unless close() itself raised.
PdfClose ==
    /\ pdf.pc = "close"
    /\ \/ pdf' = [pdf EXCEPT !.closes = @ + 1,
                             !.pc = IF pdf.pending = "return"
                                    THEN "done" ELSE "except",
                             !.result = IF pdf.pending = "return"
                                        THEN Concat(pdf.text) ELSE @]
       \/ pdf' = [pdf EXCEPT !.closes = @ + 1, !.pc = "except",
                             !.failed = @ \cup {"close"}]
    /\ UNCHANGED <<scoring, critique, coach, button>>

\* Lines 51-52: except Exception: return "".
PdfExcept ==
    /\ pdf.pc = "except"
    /\ pdf' = [pdf EXCEPT !.pc = "done", !.result = <<>>]
    /\ UNCHANGED <<scoring, critique, coach, button>>

NextPdf ==
    \/ PdfRead
    \/ PdfSeek
    \/ PdfCheckFitz
    \/ PdfOpen
    \/ PdfPage
    \/ PdfClose
    \/ PdfExcept

SpecPdf == InitPdf /\ [][NextPdf]_vars

\* The steps whose failure ends the extraction.
FatalSteps == {"read", "open", "get_text", "close"}

\* C11: extract_text_from_pdf never raises; when reading the upload, opening
\* the document, extracting a page's text or closing the document fails, or
\* the PDF library is absent, it returns ""; a failing rewind is ignored and
\* does not by itself empty the result; with no such failure it returns the
\* pages' texts joined; and a document that was opened has had close()
\* called exactly once when the function returns.
C11_NeverFailsCaller ==
    pdf.pc = "done" =>
        /\ ~pdf.raised
        /\ (pdf.failed \cap FatalSteps # {} \/ ~pdf.fitz) => pdf.result = <<>>
        /\ (pdf.failed \cap FatalSteps = {} /\ pdf.fitz)
               => /\ Len(pdf.text) = pdf.npages
                  /\ pdf.result = Concat(pdf.text)
        /\ pdf.closes = (IF pdf.opened THEN 1 ELSE 0)

\* A page's text could not be extracted, the document was closed and the
\* call returned.
C11_Witness ==
    /\ pdf.pc = "done"
    /\ "get_text" \in pdf.failed
    /\ pdf.opened
    /\ pdf.closes = 1
    /\ pdf.result = <<>>

\* C11 as stated: whichever step fails, the rewind included, the function
\* returns "", and an opened document is closed before the return.
C11_AnyFailureGivesEmpty ==
    pdf.pc = "done" =>
        /\ ~pdf.raised
        /\ (pdf.failed # {} \/ ~pdf.fitz) => pdf.result = <<>>
        /\ pdf.opened => pdf.closes = 1


\* ------------------------------------------------------------------------
\* critique_interview_answer (resume_analysis.py lines 298-370).

\* The words the heuristic looks for (line 349).
StarWords == {"situation", "task", "action", "result"}

\* An answer is a number of plain words, with no digit and none of the STAR
\* words in them, followed by marked words: STAR words and the number "7".
\* The words are separated by blanks.
FillerCounts == {0, 1, 39, 40, 58, 59, 60, 219, 220, 221}
MarkedWords == StarWords \cup {"7"}
Answers == [filler : FillerCounts, marked : SUBSET MarkedWords]

\* Line 347: len(answer.split()).
WordCount(a) == a.filler + Cardinality(a.marked)

\* Line 348: any(ch.isdigit() for ch in answer).
HasNumbers(a) == "7" \in a.marked

\* Line 349: the number of STAR words that occur in answer.lower().
StarHits(a) == Cardinality(a.marked \cap StarWords)

Min(a, b) == IF a <= b THEN a ELSE b

\* Lines 347-370: the heuristic default.
HeuristicDefault(a) ==
    [kind |-> "object",
     body |-> {"scores", "summary", "suggestions", "improved_answer"},
     scores |->
        [clarity |-> IF WordCount(a) >= 40 THEN 3 ELSE 2,
         structure |-> Min(5, 2 + StarHits(a)),
         technical_depth |-> 3 + (IF HasNumbers(a) THEN 1 ELSE 0),
         impact |-> 3 + (IF HasNumbers(a) THEN 1 ELSE 0),
         conciseness |-> IF 60 <= WordCount(a) /\ WordCount(a) <= 220
                         THEN 4
                         ELSE IF WordCount(a) < 60 THEN 3 ELSE 2]]

\* What json.loads (line 340) can return.  The body of an object is the set
\* of its keys, the body of an array the sequence of its items, the body of
\* a string the sequence of the pieces it is written from.
JsonNames == {"scores", "improved_answer", "summary"}
JsonObjects == [kind : {"object"}, body : SUBSET JsonNames]
JsonArrays ==
    [kind : {"array"},
     body : {<<>>, <<"scores">>, <<"improved_answer">>,
             <<"scores", "improved_answer">>, <<"summary", "scores">>}]
JsonStrings ==
    [kind : {"string"},
     body : {<<>>, <<"scores">>, <<"no ", "scores", " or ",
                                   "improved_answer", " given">>}]
JsonScalars == [kind : {"number", "null", "true"}, body : {<<>>}]
JsonValues == JsonObjects \cup JsonArrays \cup JsonStrings \cup JsonScalars

\* The content of the model's message: a JSON text, or a text that is not
\* JSON.
NotJson == [kind |-> "not_json", body |-> <<>>]
Contents == JsonValues \cup {NotJson}

\* Python's "k in data" of line 341 is defined for objects (k is a key),
\* arrays (k is an item) and strings (k is a substring); on a number, null
\* or a boolean it raises TypeError.
InRaises(data) == data.kind \in {"number", "null", "true"}
PyIn(k, data) ==
    IF data.kind = "object"
    THEN k \in data.body
    ELSE \E i \in DOMAIN data.body : data.body[i] = k

\* The frame of a call that has just been entered; client tells whether
\* _ollama_chat is available (lines 60-63).
CritiqueEntered(client, a) ==
    [pc |-> "chat", client |-> client, answer |-> a, outcome |-> "none",
     data |-> NotJson, result |-> NotJson]

InitCritique ==
    /\ _HAS_SK \in BOOLEAN
    /\ DEFAULT_SKILLS = DefaultCatalog
    /\ call = "none" /\ pc = "done"
    /\ text = <<>> /\ jd_text = <<>> /\ extra = None /\ result = None
    /\ frame = [c \in Callers |-> IdleFrame]
    /\ extra_list = [c \in Callers |-> None]
    /\ pdf = [pc |-> "idle"]
    /\ coach = [questions |-> <<>>, idx |-> 0, records |-> <<>>]
    /\ button = "none"
    /\ \E client \in BOOLEAN, a \in Answers :
          critique = CritiqueEntered(client, a)

\* Lines 334-339: the chat call and the read of its message content.  The
\* call raises when the client is unavailable and may raise otherwise.
CritiqueChat ==
    /\ critique.pc = "chat"
    /\ IF ~critique.client
       THEN critique' = [critique EXCEPT !.pc = "fallback",
                                         !.outcome = "unavailable"]
       ELSE \/ critique' = [critique EXCEPT !.pc = "fallback",
                                            !.outcome = "raised"]
            \/ \E raw \in Contents :
                 critique' = [critique EXCEPT !.pc = "loads", !.data = raw]
    /\ UNCHANGED <<scoring, pdf, coach, button>>

\* Line 340: data = json.loads(raw).
CritiqueLoads ==
    /\ critique.pc = "loads"
    /\ critique' = IF critique.data = NotJson
                   THEN [critique EXCEPT !.pc = "fallback",
                                         !.outcome = "not_json"]
                   ELSE [critique EXCEPT !.pc = "check", !.outcome = "json"]
    /\ UNCHANGED <<scoring, pdf, coach, button>>

\* Lines 341-344: return data when both names are "in" it; a TypeError of
\* the test is caught.
CritiqueCheck ==
    /\ critique.pc = "check"
    /\ critique' =
          IF InRaises(critique.data)
          THEN [critique EXCEPT !.pc = "fallback"]
          ELSE IF PyIn("scores", critique.data)
                    /\ PyIn("improved_answer", critique.data)
               THEN [critique EXCEPT !.pc = "done", !.result = critique.data]
               ELSE [critique EXCEPT !.pc = "fallback"]
    /\ UNCHANGED <<scoring, pdf, coach, button>>

\* Lines 346-370: the heuristic fallback.
CritiqueFallback ==
    /\ critique.pc = "fallback"
    /\ critique' = [critique EXCEPT !.pc = "done",
                                    !.result = HeuristicDefault(critique.answer)]
    /\ UNCHANGED <<scoring, pdf, coach, button>>

NextCritique ==
    \/ CritiqueChat
    \/ CritiqueLoads
    \/ CritiqueCheck
    \/ CritiqueFallback

SpecCritique == InitCritique /\ [][NextCritique]_vars

\* The model answered with a JSON object holding both "scores" and
\* "improved_answer".
WellFormed(c) ==
    /\ c.outcome = "json"
    /\ c.data.kind = "object"
    /\ {"scores", "improved_answer"} \subseteq c.data.body

\* A mapping that contains "scores" and "improved_answer".
IsFeedbackMapping(v) ==
    /\ v.kind = "object"
    /\ {"scores", "improved_answer"} \subseteq v.body

\* C12: for every LLM outcome that is not a JSON object holding both
\* "scores" and "improved_answer" critique_interview_answer returns the
\* heuristic default, whose five scores are integers from 1 to 5; otherwise
\* it returns the model's JSON object; so the result is always a mapping
\* that contains "scores" and "improved_answer".
C12_AlwaysFeedbackMapping ==
    critique.pc = "done" =>
        /\ IsFeedbackMapping(critique.result)
        /\ IF WellFormed(critique)
           THEN critique.result = critique.data
           ELSE /\ critique.result = HeuristicDefault(critique.answer)
                /\ \A f \in DOMAIN critique.result.scores :
                      critique.result.scores[f] \in 1..5


\* ------------------------------------------------------------------------
\* The Interview Coach tab (main.py lines 234-340).  Streamlit runs the
\* script once per click, with the clicked button's flag set and the other
\* flags clear; st.session_state.coach lives across the runs.  A question is
\* named by its place in its list: "B3" is the third of _BEHAVIORAL_QS.

\* The slider of line 252 goes from 1 to 8; these of its values are followed.
SliderValues == {1, 2}

\* The most records of one session that are followed.
MaxRecords == 2

\* resume_analysis.py lines 223-231 and 233-241.
_BEHAVIORAL_QS == {"B1", "B2", "B3", "B4", "B5", "B6", "B7"}
_TECH_QS_GENERAL == {"T1", "T2", "T3", "T4", "T5", "T6", "T7"}

\* main.py lines 260-266.
HardFallback == <<"H1", "H2", "H3", "H4", "H5">>

\* The choices of the selectbox of line 248.
Modes == {"Behavioral", "Technical", "Aptitude"}

\* s[:n].
Take(s, n) == SubSeq(s, 1, Min(n, Len(s)))

\* Lines 293-295: random.shuffle(bank) leaves the bank in any order, and
\* bank[:n] is a new list of the first n of it: any n different questions of
\* the bank, in any order.
ShuffledPrefixes(bank, n) ==
    LET k == Min(n, Cardinality(bank))
    IN  {q \in [1..k -> bank] : \A i, j \in 1..k : q[i] = q[j] => i = j}

\* What the model's answer can be parsed to (lines 280-287): nothing, because
\* the client is unavailable or raised; something that is not a list of
\* strings; or a list of strings.
LlmAnswers ==
    [kind : {"raised", "not_list"}, items : {<<>>}]
        \cup [kind : {"list"},
              items : {<<>>, <<"L1">>, <<"L1", "L2">>, <<"L1", "L2", "L3">>}]

\* generate_interview_questions (lines 259-295): the values it can return.
generate_interview_questions(mode, llm, n) ==
    IF llm.kind = "list"
    THEN {Take(llm.items, n)}
    ELSE ShuffledPrefixes(IF mode = "Behavioral"
                          THEN _BEHAVIORAL_QS ELSE _TECH_QS_GENERAL, n)

\* The question list of a session that keeps whatever was generated.
SessionQuestionsNoFallback(qs, num_q) == qs

\* main.py lines 257-266 and 268: "or []", the hard fallback for an empty
\* list, and the copy that is stored.
SessionQuestions(qs, num_q) ==
    IF qs = <<>> THEN Take(HardFallback, num_q) ELSE qs

\* The next index without the test of line 333.
NextIdxUnguarded(c) == c.idx + 1

\* main.py lines 333-334: the index after a click on Next Question.
NextIdx(c) == IF c.idx < Len(c.questions) - 1 THEN c.idx + 1 ELSE c.idx

\* What the answer box can hold, and answer.strip() of line 301.
AnswerTexts == {<<>>, <<" ">>, <<" ", "\n">>, <<" ", "a">>}
Strip(a) == \E i \in DOMAIN a : a[i] \notin Whitespace

\* What critique_interview_answer gave back: a mapping or, for some model
\* responses, a list or a string.
Feedbacks == {"mapping", "not_mapping"}

InitCoach ==
    /\ _HAS_SK \in BOOLEAN
    /\ DEFAULT_SKILLS = DefaultCatalog
    /\ call = "none" /\ pc = "done"
    /\ text = <<>> /\ jd_text = <<>> /\ extra = None /\ result = None
    /\ frame = [c \in Callers |-> IdleFrame]
    /\ extra_list = [c \in Callers |-> None]
    /\ pdf = [pc |-> "idle"]
    /\ critique = [pc |-> "idle"]
    /\ coach = [questions |-> <<>>, idx |-> 0, records |-> <<>>]
    /\ button = "none"

\* Lines 256-271: a click on Generate Questions.
GenerateQuestions ==
    /\ \E mode \in Modes, llm \in LlmAnswers, num_q \in SliderValues :
         \E qs \in generate_interview_questions(mode, llm, num_q) :
            coach' = [questions |-> SessionQuestions(qs, num_q),
                      idx |-> 0, records |-> <<>>]
    /\ button' = "generate"
    /\ UNCHANGED <<scoring, pdf, critique>>

\* Lines 296-298: a click on Restart Session, shown while there are
\* questions (line 277).
RestartSession ==
    /\ coach.questions # <<>>
    /\ coach' = [questions |-> <<>>, idx |-> 0, records |-> <<>>]
    /\ button' = "restart"
    /\ UNCHANGED <<scoring, pdf, critique>>

\* Lines 301-307: a click on Get Feedback; the record is appended before the
\* feedback is displayed.
GetFeedback ==
    /\ coach.questions # <<>>
    /\ Len(coach.records) < MaxRecords
    /\ \E answer \in AnswerTexts, fb \in Feedbacks :
          coach' = IF Strip(answer)
                   THEN [coach EXCEPT !.records =
                            Append(@, [question |-> coach.questions[coach.idx + 1],
                                       answer |-> answer,
                                       feedback |-> fb])]
                   ELSE coach
    /\ button' = "feedback"
    /\ UNCHANGED <<scoring, pdf, critique>>

\* Lines 332-337: a click on Next Question.
NextQuestion ==
    /\ coach.questions # <<>>
    /\ coach' = [coach EXCEPT !.idx = NextIdx(coach)]
    /\ button' = "next"
    /\ UNCHANGED <<scoring, pdf, critique>>

NextCoach ==
    \/ GenerateQuestions
    \/ RestartSession
    \/ GetFeedback
    \/ NextQuestion

SpecCoach == InitCoach /\ [][NextCoach]_vars

\* C13: whenever the question list is non-empty, 0 <= idx <= len - 1; and a
\* click on Next Question adds exactly one to idx when idx < len - 1 and
\* otherwise leaves idx, the questions and the records as they were.
C13_IdxInRange ==
    /\ [](coach.questions # <<>>
            => 0 <= coach.idx /\ coach.idx <= Len(coach.questions) - 1)
    /\ [][button' = "next" =>
            IF coach.idx < Len(coach.questions) - 1
            THEN coach' = [coach EXCEPT !.idx = @ + 1]
            ELSE coach' = coach]_vars

\* Next Question has moved the session to its last question.
C13_Witness ==
    /\ button = "next"
    /\ coach.idx >= 1
    /\ coach.idx = Len(coach.questions) - 1

Records == {coach.records[i] : i \in DOMAIN coach.records}

\* C14: Generate Questions leaves a non-empty question list, idx 0 and no
\* records; Restart Session leaves an empty list, idx 0 and no records; and
\* every record holds a non-blank answer and a question of the current
\* question list, the records changing only when Get Feedback appends one
\* for the question shown or when they are emptied.
C14_FreshSessions ==
    /\ [](/\ button = "generate"
             => /\ coach.questions # <<>>
                /\ coach.idx = 0
                /\ coach.records = <<>>
          /\ button = "restart"
             => coach = [questions |-> <<>>, idx |-> 0, records |-> <<>>]
          /\ \A r \in Records :
                /\ Strip(r.answer)
                /\ \E i \in DOMAIN coach.questions :
                      coach.questions[i] = r.question)
    /\ [][coach'.records # coach.records =>
            \/ coach'.records = <<>>
            \/ /\ button' = "feedback"
               /\ Len(coach'.records) = Len(coach.records) + 1
               /\ SubSeq(coach'.records, 1, Len(coach.records)) = coach.records
               /\ coach'.records[Len(coach'.records)].question
                     = coach.questions[coach.idx + 1]
               /\ coach'.questions = coach.questions]_vars

\* The model returned an empty list, and the session that Generate Questions
\* started holds the first two of the hard-coded questions.
C14_Witness ==
    /\ button = "generate"
    /\ coach = [questions |-> <<"H1", "H2">>, idx |-> 0, records |-> <<>>]

====
